---- MODULE Spec2Model ----
\* The nanomatch parser rule set (lib/parsers.js) as a state machine: one
\* action per parser rule, applied by the snapdragon parse loop to the
\* remaining input.  Strings are sequences of one-character strings.
EXTENDS Integers, Sequences, FiniteSets

\* ---------------------------------------------------------------- bounds

\* longest pattern drawn over the whole alphabet
MaxLen == 3
\* longest pattern of separators and stars
MaxGlobLen == 10
\* longest text after an opening quote
MaxQuoteLen == 5
\* longest text after an opening bracket and its marker
MaxBracketLen == 5

\* ------------------------------------------------------------ characters

BS == "\\"
DQ == "\""
SQ == "'"
NL == "\n"

Alphabet ==
  {"a", "/", ".", BS, "!", "*", "+", "?", "(", ",", "[", "]", "^", DQ}
GlobChars == {"/", "*"}
QuoteChars == {DQ, SQ, BS, "a"}
BracketChars == {"]", BS, "a", "-"}

\* characters a JavaScript regular expression's `.` does not match
LineTerminators == {NL}

\* ------------------------------------------------------- string helpers

Min(a, b) == IF a < b THEN a ELSE b

\* String.prototype.charAt: the empty string outside the string
At(s, i) == IF i \in 1..Len(s) THEN s[i] ELSE ""

\* String.prototype.substr(n) / slice(n)
Drop(s, n) == IF n >= Len(s) THEN <<>> ELSE SubSeq(s, n + 1, Len(s))

\* String.prototype.slice(0, n)
Take(s, n) == IF n <= 0 THEN <<>> ELSE SubSeq(s, 1, Min(n, Len(s)))

\* length of the longest prefix of s whose characters are all in S
RunIn(s, S) ==
  LET stop == {i \in 1..Len(s) : s[i] \notin S}
  IN  IF stop = {} THEN Len(s)
      ELSE (CHOOSE i \in stop : \A j \in stop : i <= j) - 1

\* length of the longest prefix of s none of whose characters is in S
RunNotIn(s, S) ==
  LET stop == {i \in 1..Len(s) : s[i] \in S}
  IN  IF stop = {} THEN Len(s)
      ELSE (CHOOSE i \in stop : \A j \in stop : i <= j) - 1

\* Lacks as it would be were the opening quote still in the input searched
LacksNever(s, c) == FALSE

\* String.prototype.indexOf(c) === -1
Lacks(s, c) == \A i \in 1..Len(s) : s[i] # c

\* ---------------------------------------------------- regular expressions
\* Each matcher gives the length of m[0] for its rule's regular expression
\* applied to the remaining input s, 0 when it does not match.

\* /^\.[\\/]/
prefixRe(s) == IF At(s, 1) = "." /\ At(s, 2) \in {BS, "/"} THEN 2 ELSE 0

\* /^(?:\\(.)|([$^]))/
escapeRe(s) ==
  IF At(s, 1) = BS /\ At(s, 2) # "" /\ At(s, 2) \notin LineTerminators THEN 2
  ELSE IF At(s, 1) \in {"$", "^"} THEN 1
  ELSE 0

\* /^["']/
quotedRe(s) == IF At(s, 1) \in {DQ, SQ} THEN 1 ELSE 0

\* this.notRegex || /^!+/
notRe(s) == RunIn(s, {"!"})

\* /^\.+/
dotRe(s) == RunIn(s, {"."})

\* /^\+(?!\()/
plusRe(s) == IF At(s, 1) = "+" /\ At(s, 2) # "(" THEN 1 ELSE 0

\* /^\?+(?!\()/ : the greedy run gives one character back before a paren
qmarkRe(s) ==
  LET n == RunIn(s, {"?"})
  IN  IF n = 0 THEN 0
      ELSE IF At(s, n + 1) = "(" THEN n - 1
      ELSE n

\* /^\*{2}(?![*(])(?=[,)/]|$)/
globstarRe(s) ==
  IF At(s, 1) = "*" /\ At(s, 2) = "*" /\ At(s, 3) \in {",", ")", "/", ""}
  THEN 2 ELSE 0

\* /^(?:\*(?![*(])|[*]{3,}(?!\()|[*]{2}(?![(/]|$)|\*(?=\*\())/
starRe(s) ==
  LET n == RunIn(s, {"*"})
  IN  IF At(s, 1) = "*" /\ At(s, 2) \notin {"*", "("} THEN 1
      ELSE IF n >= 3 /\ At(s, n + 1) # "(" THEN n
      ELSE IF n >= 4 THEN n - 1
      ELSE IF n >= 2 /\ At(s, 3) \notin {"(", "/", ""} THEN 2
      ELSE IF n >= 2 /\ At(s, 3) = "(" THEN 1
      ELSE 0

\* /^\//
slashRe(s) == IF At(s, 1) = "/" THEN 1 ELSE 0

\* /^\\(?![*+?(){}[\]'"])/
backslashRe(s) ==
  IF /\ At(s, 1) = BS
     /\ At(s, 2) \notin {"*", "+", "?", "(", ")", "{", "}", "[", "]", SQ, DQ}
  THEN 1 ELSE 0

\* /^\[([^!^\\])\]/
squareRe(s) ==
  IF /\ At(s, 1) = "["
     /\ At(s, 2) # "" /\ At(s, 2) \notin {"!", "^", BS}
     /\ At(s, 3) = "]"
  THEN 3 ELSE 0

\* ([^\]]+|\]-)(\]|[^*+?]+) matched at the start of r, in the order a
\* backtracking matcher tries it: the longest body first, shortened one
\* character at a time until a closing part follows.
bracketTail(r) ==
  LET n    == RunNotIn(r, {"]"})
      wild == {"*", "+", "?"}
      K    == {k \in 1..(n - 1) : r[k + 1] \notin wild}
      k    == CHOOSE x \in K : \A y \in K : y <= x
      none == [ok |-> FALSE, m2 |-> <<>>, m3 |-> <<>>]
  IN  IF n >= 1 /\ At(r, n + 1) = "]"
        THEN [ok |-> TRUE, m2 |-> Take(r, n), m3 |-> <<"]">>]
      ELSE IF n >= 1 /\ K # {}
        THEN [ok |-> TRUE, m2 |-> Take(r, k),
              m3 |-> Take(Drop(r, k), RunNotIn(Drop(r, k), wild))]
      ELSE IF n = 0 /\ At(r, 1) = "]" /\ At(r, 2) = "-" /\ At(r, 3) = "]"
        THEN [ok |-> TRUE, m2 |-> <<"]", "-">>, m3 |-> <<"]">>]
      ELSE IF n = 0 /\ At(r, 1) = "]" /\ At(r, 2) = "-"
              /\ At(r, 3) # "" /\ At(r, 3) \notin wild
        THEN [ok |-> TRUE, m2 |-> <<"]", "-">>,
              m3 |-> Take(Drop(r, 2), RunNotIn(Drop(r, 2), wild))]
      ELSE none

\* /^(?:\[([!^]?)([^\]]+|\]-)(\]|[^*+?]+)|\[)/ : the match, with its groups
\* (a group that did not take part is the empty string)
bracketRe(s) ==
  LET r      == Drop(s, 1)
      marked == bracketTail(Drop(r, 1))
      plain  == bracketTail(r)
      mk(m1, t) == [len |-> 1 + Len(m1) + Len(t.m2) + Len(t.m3),
                    m1 |-> m1, m2 |-> t.m2, m3 |-> t.m3]
  IN  IF At(s, 1) # "["
        THEN [len |-> 0, m1 |-> <<>>, m2 |-> <<>>, m3 |-> <<>>]
      ELSE IF At(r, 1) \in {"!", "^"} /\ marked.ok THEN mk(Take(r, 1), marked)
      ELSE IF plain.ok THEN mk(<<>>, plain)
      ELSE [len |-> 1, m1 |-> <<>>, m2 |-> <<>>, m3 |-> <<>>]

\* collapseBackslashes that replaces nothing
collapseNothing(str) == str

\* String.prototype.replace(/\\\\+/, '\\\\'): the first run of two or more
\* backslashes becomes exactly two
collapseBackslashes(str) ==
  LET at == {i \in 1..Len(str) : str[i] = BS /\ At(str, i + 1) = BS}
      i  == CHOOSE x \in at : \A y \in at : x <= y
      n  == RunIn(Drop(str, i - 1), {BS})
  IN  IF at = {} THEN str
      ELSE Take(str, i - 1) \o <<BS, BS>> \o Drop(str, i - 1 + n)

\* NOT_REGEX: the characters the other rules match
NOT_REGEX == {"[", "!", "*", "+", "?", "$", "^", DQ, SQ, ".", BS, "/"}

\* textRe without the repetition of the negated character
textReOne(s) ==
  IF /\ At(s, 1) = "*" /\ At(s, 2) = "("
     /\ At(s, 3) # "" /\ At(s, 3) \notin LineTerminators
  THEN 2
  ELSE Min(1, RunNotIn(s, NOT_REGEX \cup LineTerminators))

\* createTextRegex: ^(?:[*]\((?=.)|^(?:(?!(?:NOT_REGEX)).)+)
textRe(s) ==
  IF /\ At(s, 1) = "*" /\ At(s, 2) = "("
     /\ At(s, 3) # "" /\ At(s, 3) \notin LineTerminators
  THEN 2
  ELSE RunNotIn(s, NOT_REGEX \cup LineTerminators)

\* ------------------------------------------------------------ the cursor
\* `this` is the parser object the rules run on: input (what remains),
\* parsed (what the matches consumed), nodes (the AST so far), state (the
\* shared scan state), bos and append (the wrap strings), sets (the open
\* bracket / brace / paren contexts) and options.

\* match that reports the match and leaves the cursor where it was
matchPeek(this, n) == this

\* this.match(re), for a match of length n: the matched text moves from
\* input to parsed
match(this, n) ==
  [this EXCEPT !.parsed = @ \o Take(this.input, n), !.input = Drop(@, n)]

\* this.consume(n): input.substr(n); parsed is not touched
consume(this, n) == [this EXCEPT !.input = Drop(@, n)]

\* pos(node), returned by a rule: the node joins the AST
emit(this, node) == [this EXCEPT !.nodes = Append(@, node)]

\* this.isInside(type)
isInside(this, type) == this.sets[type] # <<>>

\* ------------------------------------------------------------- advanceTo

\* '\\' + ch and '' + ch for a ch that charAt may have returned empty
chars(ch) == IF ch = "" THEN <<>> ELSE <<ch>>

\* the inner function advance(); tok is {ch, idx, len, val, esc}
RECURSIVE advance(_, _)
advance(input, tok) ==
  LET a == IF tok.ch # BS
             THEN [tok EXCEPT !.esc = @ \o <<BS>> \o chars(tok.ch),
                              !.val = @ \o chars(tok.ch)]
             ELSE tok
      b == [a EXCEPT !.ch = At(input, a.idx + 2), !.idx = @ + 1, !.len = @ + 1]
  IN  IF b.ch = BS THEN advance(input, advance(input, b)) ELSE b

\* while (ch && ch !== endChar) advance()
RECURSIVE advanceWhile(_, _, _)
advanceWhile(input, endChar, tok) ==
  IF tok.ch # "" /\ tok.ch # endChar
  THEN advanceWhile(input, endChar, advance(input, tok))
  ELSE tok

advanceTo(input, endChar) ==
  advanceWhile(input, endChar,
    [ch |-> At(input, 1), idx |-> 0, len |-> 1, val |-> <<>>, esc |-> <<>>])

\* ------------------------------------------------------------- the rules
\* Each rule is given for an input its regular expression matches; `applies`
\* below says when that is.

\* prefix that sets the flags and leaves the matched text in the input
prefixAdvisory(this) ==
  [this EXCEPT !.state.strictOpen = this.options.strictOpen,
               !.state.addPrefix = TRUE]

\* .set('prefix'): sets the flags, returns no node
prefix(this) ==
  LET t == match(this, prefixRe(this.input))
  IN  [t EXCEPT !.state.strictOpen = this.options.strictOpen,
                !.state.addPrefix = TRUE]

\* .set('escape')
escape(this) ==
  LET n == escapeRe(this.input)
  IN  emit(match(this, n), [type |-> "escape", val |-> <<this.input[n]>>])

\* .set('quoted')
quoted(this) ==
  LET quote == this.input[1]
      t     == match(this, 1)
      tok   == advanceTo(t.input, quote)
  IN  IF Lacks(t.input, quote)
        THEN emit(t, [type |-> "escape", val |-> <<quote>>])
        ELSE emit(consume(t, tok.len), [type |-> "quoted", val |-> tok.esc])

\* notWraps with the parity test inverted
notWrapsOnEven(parsed, isNegated, options) ==
  parsed = <<>> /\ ~isNegated /\ options.nonegate # TRUE

\* notWraps without the nonegate test
notWrapsAlways(parsed, isNegated, options) == parsed = <<>> /\ isNegated

\* the test that decides whether the leading negation wraps the pattern
notWraps(parsed, isNegated, options) ==
  parsed = <<>> /\ isNegated /\ options.nonegate # TRUE

\* .set('not')
not(this) ==
  LET parsed    == this.parsed
      n         == notRe(this.input)
      m0        == Take(this.input, n)
      t         == match(this, n)
      isNegated == n % 2 = 1
      wrap      == notWraps(parsed, isNegated, this.options)
      val       == IF parsed = <<>> /\ ~isNegated THEN <<>>
                   ELSE IF wrap THEN <<>>
                   ELSE m0
  IN  emit([t EXCEPT !.bos = IF wrap THEN "(?!^(?:" ELSE @,
                     !.append = IF wrap THEN ")$).*" ELSE @],
           [type |-> "not", val |-> val])

\* isDotfile without the test that the run is a single dot
isDotfileAnyRun(val, parsed) ==
  parsed = <<>> \/ At(parsed, Len(parsed)) = "/"

\* this.state.dot
isDotfile(val, parsed) ==
  val = <<".">> /\ (parsed = <<>> \/ At(parsed, Len(parsed)) = "/")

\* dot that gives the node the state.dot it found instead of the one it set
dotStale(this) ==
  LET parsed == this.parsed
      n      == dotRe(this.input)
      val    == Take(this.input, n)
      d      == isDotfile(val, parsed)
      t      == match(this, n)
  IN  emit([t EXCEPT !.state.dot = d],
           [type |-> "dot", dotfiles |-> this.state.dot, val |-> val])

\* .set('dot')
dot(this) ==
  LET parsed == this.parsed
      n      == dotRe(this.input)
      val    == Take(this.input, n)
      d      == isDotfile(val, parsed)
      t      == match(this, n)
  IN  emit([t EXCEPT !.state.dot = d],
           [type |-> "dot", dotfiles |-> d, val |-> val])

\* .capture('plus', re)
plus(this) ==
  LET n == plusRe(this.input)
  IN  emit(match(this, n), [type |-> "plus", val |-> Take(this.input, n)])

\* qmark that sets state.qmark only
qmarkPlain(this) ==
  LET n == qmarkRe(this.input)
      t == match(this, n)
  IN  emit([t EXCEPT !.state.qmark = TRUE],
           [type |-> "qmark", parsed |-> this.parsed, val |-> Take(this.input, n)])

\* .set('qmark')
qmark(this) ==
  LET n == qmarkRe(this.input)
      t == match(this, n)
  IN  emit([t EXCEPT !.state.metachar = TRUE, !.state.qmark = TRUE],
           [type |-> "qmark", parsed |-> this.parsed, val |-> Take(this.input, n)])

\* foldGlobstars without the loop
foldNothing(input) == input

\* while (this.input.slice(0, 4) === '/**/') this.input = this.input.slice(3)
RECURSIVE foldGlobstars(_)
foldGlobstars(input) ==
  IF Take(input, 4) = <<"/", "*", "*", "/">>
  THEN foldGlobstars(Drop(input, 3))
  ELSE input

\* globstarType with the option ignored
globstarTypeAlways(options) == "globstar"

\* const type = opts.noglobstar !== true ? 'globstar' : 'star'
globstarType(options) == IF options.noglobstar # TRUE THEN "globstar" ELSE "star"

\* globstar that writes both flags in either branch
globstarExclusive(this) ==
  LET type   == globstarType(this.options)
      t      == match(this, globstarRe(this.input))
      folded == [t EXCEPT !.input = foldGlobstars(@), !.state.metachar = TRUE]
      inside == [brace |-> isInside(folded, "brace"),
                 paren |-> isInside(folded, "paren")]
  IN  emit([folded EXCEPT !.state.globstar = (type = "globstar"),
                          !.state.star = (type # "globstar")],
           [type |-> type, parsed |-> this.parsed, isInside |-> inside,
            val |-> IF type = "globstar" THEN <<"*", "*">> ELSE <<"*">>])

\* .set('globstar')
globstar(this) ==
  LET type   == globstarType(this.options)
      t      == match(this, globstarRe(this.input))
      folded == [t EXCEPT !.input = foldGlobstars(@), !.state.metachar = TRUE]
      inside == [brace |-> isInside(folded, "brace"),
                 paren |-> isInside(folded, "paren")]
  IN  IF type = "globstar"
        THEN emit([folded EXCEPT !.state.globstar = TRUE],
                  [type |-> type, parsed |-> this.parsed, isInside |-> inside,
                   val |-> <<"*", "*">>])
        ELSE emit([folded EXCEPT !.state.star = TRUE],
                  [type |-> type, parsed |-> this.parsed, isInside |-> inside,
                   val |-> <<"*">>])

\* .set('star')
star(this) ==
  LET n == starRe(this.input)
      t == match(this, n)
  IN  emit([t EXCEPT !.state.metachar = TRUE, !.state.star = TRUE],
           [type |-> "star", val |-> Take(this.input, n)])

\* slash without the increment
slashUncounted(this) ==
  emit(match(this, slashRe(this.input)),
       [type |-> "slash", val |-> Take(this.input, 1)])

\* .set('slash')
slash(this) ==
  LET t == match(this, slashRe(this.input))
  IN  emit([t EXCEPT !.state.slashes = @ + 1],
           [type |-> "slash", val |-> Take(this.input, 1)])

\* .set('backslash'): the regular expression matches one backslash, so
\* val.length > 1 never holds
backslash(this) ==
  LET n   == backslashRe(this.input)
      m0  == Take(this.input, n)
      val == IF isInside(this, "bracket") THEN <<BS>>
             ELSE IF Len(m0) > 1 THEN <<BS, BS>>
             ELSE m0
  IN  emit(match(this, n), [type |-> "backslash", val |-> val])

\* .set('square')
square(this) ==
  emit(match(this, squareRe(this.input)),
       [type |-> "square", val |-> <<this.input[2]>>])

\* the loop of the bracket rule after an empty body and an escaped closing
\* bracket; i counts the characters of str already taken.  `close` is a
\* const binding, so the assignment close = ch throws a TypeError.
RECURSIVE bracketScan(_, _, _, _)
bracketScan(this, str, i, inner) ==
  LET ch == At(str, i + 1)
  IN  IF ch = "" THEN [this |-> this, inner |-> inner]
      ELSE IF ch = "]"
        THEN [this |-> [consume(this, 1) EXCEPT !.status = "error"],
              inner |-> inner]
      ELSE bracketScan(consume(this, 1), str, i + 1, inner \o <<ch>>)

\* bracketEscaped that takes only a missing close for an unclosed class
bracketEscapedIfEmpty(close) == close = <<>>

\* escaped: close !== ']'
bracketEscaped(close) == close # <<"]">>

\* .set('bracket')
bracket(this) ==
  LET m       == bracketRe(this.input)
      m0      == Take(this.input, m.len)
      t       == match(this, m.len)
      negated == IF m.m1 # <<>> THEN <<"^">> ELSE <<>>
      inner   == collapseBackslashes(m.m2)
      close   == m.m3
      val     == IF m.m2 # <<>> /\ Len(inner) < Len(m.m2)
                 THEN collapseBackslashes(m0) ELSE m0
      esc     == Take(t.input, 2)
      scan    == bracketScan(consume(t, 2), Drop(t.input, 2), 0, inner \o esc)
      node(i) == [type |-> "bracket", val |-> val, escaped |-> bracketEscaped(close),
                  negated |-> negated, inner |-> i, close |-> close]
  IN  IF inner = <<>> /\ esc = <<BS, "]">>
        THEN IF scan.this.status = "error" THEN scan.this
             ELSE emit(scan.this, node(scan.inner))
        ELSE emit(t, node(inner))

\* .set('text')
text(this) ==
  LET n == textRe(this.input)
  IN  emit(match(this, n), [type |-> "text", val |-> Take(this.input, n)])

\* -------------------------------------------------------- the parse loop

\* whether a rule's function gets past its early returns on this input
applies(rule, this) ==
  CASE rule = "prefix"    -> this.parsed = <<>> /\ prefixRe(this.input) > 0
    [] rule = "escape"    -> ~isInside(this, "bracket") /\ escapeRe(this.input) > 0
    [] rule = "quoted"    -> quotedRe(this.input) > 0
    [] rule = "not"       -> notRe(this.input) > 0
    [] rule = "dot"       -> dotRe(this.input) > 0
    [] rule = "plus"      -> plusRe(this.input) > 0
    [] rule = "qmark"     -> qmarkRe(this.input) > 0
    [] rule = "globstar"  -> globstarRe(this.input) > 0
    [] rule = "star"      -> starRe(this.input) > 0
    [] rule = "slash"     -> slashRe(this.input) > 0
    [] rule = "backslash" -> backslashRe(this.input) > 0
    [] rule = "square"    -> ~isInside(this, "bracket") /\ squareRe(this.input) > 0
    [] rule = "bracket"   -> bracketRe(this.input).len > 0
    [] rule = "text"      -> ~isInside(this, "bracket") /\ textRe(this.input) > 0

run(rule, this) ==
  CASE rule = "prefix"    -> prefix(this)
    [] rule = "escape"    -> escape(this)
    [] rule = "quoted"    -> quoted(this)
    [] rule = "not"       -> not(this)
    [] rule = "dot"       -> dot(this)
    [] rule = "plus"      -> plus(this)
    [] rule = "qmark"     -> qmark(this)
    [] rule = "globstar"  -> globstar(this)
    [] rule = "star"      -> star(this)
    [] rule = "slash"     -> slash(this)
    [] rule = "backslash" -> backslash(this)
    [] rule = "square"    -> square(this)
    [] rule = "bracket"   -> bracket(this)
    [] rule = "text"      -> text(this)

\* Rules with backslash registered ahead of escape
RulesBackslashFirst ==
  <<"prefix", "backslash", "escape", "quoted", "not", "dot", "plus", "qmark",
    "globstar", "star", "slash", "square", "bracket", "text">>

\* the order in which the rules are registered, which is the order in which
\* they are tried
Rules ==
  <<"prefix", "escape", "quoted", "not", "dot", "plus", "qmark", "globstar",
    "star", "slash", "backslash", "square", "bracket", "text">>

\* the rule that acts on this input: the first one, from the i-th on, that
\* applies, "none" when no rule does
RECURSIVE firstFrom(_, _)
firstFrom(i, this) ==
  IF i > Len(Rules) THEN "none"
  ELSE IF applies(Rules[i], this) THEN Rules[i]
  ELSE firstFrom(i + 1, this)

first(this) == firstFrom(1, this)

\* the parse loop run to its end from `this`
RECURSIVE parse(_)
parse(this) ==
  IF this.status # "parsing" THEN this
  ELSE IF this.input = <<>> THEN [this EXCEPT !.status = "done"]
  ELSE LET rule == first(this)
       IN  IF rule = "none" THEN [this EXCEPT !.status = "error"]
           ELSE parse(run(rule, this))

\* the parser as module.exports leaves it, given the pattern to parse
newParser(pattern, options) ==
  [input   |-> pattern,
   parsed  |-> <<>>,
   nodes   |-> <<>>,
   state   |-> [slashes |-> 0, dot |-> FALSE, metachar |-> FALSE,
                qmark |-> FALSE, globstar |-> FALSE, star |-> FALSE,
                strictOpen |-> FALSE, addPrefix |-> FALSE],
   bos     |-> "",
   append  |-> "",
   sets    |-> [bracket |-> <<>>, brace |-> <<>>, paren |-> <<>>],
   options |-> options,
   status  |-> "parsing"]

Options == [nonegate : BOOLEAN, noglobstar : BOOLEAN, strictOpen : BOOLEAN]

Strings(S, n) == UNION {[1..k -> S] : k \in 0..n}

\* the patterns parsed: every short string, and longer ones of the
\* characters the globstar, quoted and bracket rules look at
Patterns ==
  Strings(Alphabet, MaxLen)
    \cup Strings(GlobChars, MaxGlobLen)
    \cup {<<q>> \o w : q \in {DQ, SQ}, w \in Strings(QuoteChars, MaxQuoteLen)}
    \cup {<<"[">> \o m \o w : m \in {<<>>, <<"!">>, <<"^">>},
                             w \in Strings(BracketChars, MaxBracketLen)}

\* --------------------------------------------------------- state machine

VARIABLES
  parser,   \* the parser object
  orig,     \* the pattern being parsed
  last      \* the rule applied last, and the parser object it started from

vars == <<parser, orig, last>>

Init ==
  /\ orig \in Patterns
  /\ \E options \in Options : parser = newParser(orig, options)
  /\ last = [rule |-> "none", this |-> parser]

\* the parse loop has input left and `rule` is the one that acts on it
ready(rule) ==
  /\ parser.status = "parsing"
  /\ parser.input # <<>>
  /\ applies(rule, parser)
  /\ first(parser) = rule

\* what the step leaves in `last`
note(rule) ==
  /\ last' = [rule |-> rule, this |-> parser]
  /\ UNCHANGED orig

Prefix ==
  /\ ready("prefix")
  /\ parser' = prefix(parser)
  /\ note("prefix")

Escape ==
  /\ ready("escape")
  /\ parser' = escape(parser)
  /\ note("escape")

Quoted ==
  /\ ready("quoted")
  /\ parser' = quoted(parser)
  /\ note("quoted")

Not ==
  /\ ready("not")
  /\ parser' = not(parser)
  /\ note("not")

Dot ==
  /\ ready("dot")
  /\ parser' = dot(parser)
  /\ note("dot")

Plus ==
  /\ ready("plus")
  /\ parser' = plus(parser)
  /\ note("plus")

Qmark ==
  /\ ready("qmark")
  /\ parser' = qmark(parser)
  /\ note("qmark")

Globstar ==
  /\ ready("globstar")
  /\ parser' = globstar(parser)
  /\ note("globstar")

Star ==
  /\ ready("star")
  /\ parser' = star(parser)
  /\ note("star")

Slash ==
  /\ ready("slash")
  /\ parser' = slash(parser)
  /\ note("slash")

Backslash ==
  /\ ready("backslash")
  /\ parser' = backslash(parser)
  /\ note("backslash")

Square ==
  /\ ready("square")
  /\ parser' = square(parser)
  /\ note("square")

Bracket ==
  /\ ready("bracket")
  /\ parser' = bracket(parser)
  /\ note("bracket")

Text ==
  /\ ready("text")
  /\ parser' = text(parser)
  /\ note("text")

\* no rule takes the input that remains: the parse loop throws
NoRule ==
  /\ parser.status = "parsing"
  /\ parser.input # <<>>
  /\ first(parser) = "none"
  /\ parser' = [parser EXCEPT !.status = "error"]
  /\ note("none")

\* the input is used up: the parse loop ends
Finish ==
  /\ parser.status = "parsing"
  /\ parser.input = <<>>
  /\ parser' = [parser EXCEPT !.status = "done"]
  /\ UNCHANGED <<orig, last>>

Next ==
  \/ Prefix \/ Escape \/ Quoted \/ Not \/ Dot \/ Plus \/ Qmark \/ Globstar
  \/ Star \/ Slash \/ Backslash \/ Square \/ Bracket \/ Text
  \/ NoRule \/ Finish

Spec == Init /\ [][Next]_vars

\* ================================================================ claims

\* the node the last rule produced
lastNode == parser.nodes[Len(parser.nodes)]

\* the input the last rule started from, and how much of the pattern had been
\* consumed before it
before == last.this.input
offset == Len(orig) - Len(before)

\* C1: tokenization consumes the whole pattern: the parse loop never stops
\* with an error, the rule set always has a rule for the input that remains,
\* and a finished parse has no input left.
C1_Progress ==
  /\ parser.status # "error"
  /\ (parser.status = "parsing" /\ parser.input # <<>> => first(parser) # "none")
  /\ (parser.status = "done" => parser.input = <<>>)

\* C2: a leading odd run of `!` with nonegate not set makes the Not rule set
\* bos to the open wrap and append to the close wrap and produce a Not node
\* with an empty value, taking only the run from the input; a pattern of
\* `!` and plain text then ends as Not("") followed by Text.
C2_NegationWraps ==
  /\ (/\ last.rule = "not"
      /\ last.this.parsed = <<>>
      /\ notRe(before) % 2 = 1
      /\ parser.options.nonegate # TRUE)
     => /\ parser.bos = "(?!^(?:"
        /\ parser.append = ")$).*"
        /\ parser.nodes = <<[type |-> "not", val |-> <<>>]>>
        /\ parser.input = Drop(orig, notRe(orig))
  /\ (/\ parser.status = "done"
      /\ parser.options.nonegate # TRUE
      /\ Len(orig) >= 2
      /\ orig[1] = "!"
      /\ \A i \in 2..Len(orig) : orig[i] = "a")
     => parser.nodes = <<[type |-> "not", val |-> <<>>],
                         [type |-> "text", val |-> Tail(orig)]>>

C2_Witness ==
  /\ parser.status = "done"
  /\ orig = <<"!", "a", "a">>
  /\ parser.options.nonegate # TRUE
  /\ parser.bos = "(?!^(?:"
  /\ Len(parser.nodes) = 2

\* C3 as claimed: with nonegate set, or after something has been parsed, the
\* Not node keeps the run of `!` verbatim and bos and append stay as they were.
C3_Original ==
  (/\ last.rule = "not"
   /\ (parser.options.nonegate = TRUE \/ last.this.parsed # <<>>))
  => /\ lastNode = [type |-> "not", val |-> Take(before, notRe(before))]
     /\ parser.bos = last.this.bos
     /\ parser.append = last.this.append

\* C3 as amended: with nonegate set, or after something has been parsed, bos
\* and append stay as they were and the Not node keeps the run of `!`
\* verbatim, except for an even run with nothing parsed before it, whose
\* node has the empty value.
C3_LiteralNot ==
  (/\ last.rule = "not"
   /\ (parser.options.nonegate = TRUE \/ last.this.parsed # <<>>))
  => /\ lastNode =
          [type |-> "not",
           val  |-> IF last.this.parsed = <<>> /\ notRe(before) % 2 = 0
                    THEN <<>> ELSE Take(before, notRe(before))]
     /\ parser.bos = last.this.bos
     /\ parser.append = last.this.append
     /\ parser.input = Drop(before, notRe(before))

C3_Witness ==
  /\ last.rule = "not"
  /\ parser.options.nonegate = TRUE
  /\ last.this.parsed = <<>>
  /\ lastNode.val = <<"!", "!", "!">>
  /\ parser.bos = ""

\* C4: a `**` at the cursor that is followed by `,`, `)`, `/` or the end of
\* the input is taken by the Globstar rule, which adds one node: a globstar
\* node `**` with state.globstar set, or under noglobstar a star node `*`
\* with state.star set and state.globstar as it was.
C4_StarVsGlobstar ==
  /\ (parser.status = "parsing" /\ globstarRe(parser.input) > 0)
     => first(parser) = "globstar"
  /\ (last.rule # "none" /\ globstarRe(before) > 0)
     => /\ last.rule = "globstar"
        /\ Len(parser.nodes) = Len(last.this.nodes) + 1
        /\ lastNode.type = (IF parser.options.noglobstar # TRUE
                            THEN "globstar" ELSE "star")
        /\ lastNode.val = (IF parser.options.noglobstar # TRUE
                           THEN <<"*", "*">> ELSE <<"*">>)
        /\ IF parser.options.noglobstar # TRUE
           THEN parser.state.globstar = TRUE
           ELSE /\ parser.state.star = TRUE
                /\ parser.state.globstar = last.this.state.globstar
  /\ (parser.status = "done" /\ orig = <<"*", "*">>)
     => Len(parser.nodes) = 1

C4_Witness ==
  /\ parser.status = "done"
  /\ orig = <<"*", "*">>
  /\ parser.options.noglobstar = TRUE
  /\ parser.nodes[1].type = "star"
  /\ parser.nodes[1].val = <<"*">>
  /\ parser.state.star = TRUE
  /\ parser.state.globstar = FALSE

\* the kinds and values of a sequence of nodes
kinds(nodes) == [i \in 1..Len(nodes) |-> <<nodes[i].type, nodes[i].val>>]

\* k repetitions of `/**`
RECURSIVE reps(_)
reps(k) == IF k = 0 THEN <<>> ELSE <<"/", "*", "*">> \o reps(k - 1)

\* what followed the `**` the Globstar rule has just matched
afterStars == Drop(before, 2)

\* the number of repetitions of `/**` that follow the matched `**` and are
\* themselves followed by a `/`
folds ==
  {k \in 1..Len(afterStars) :
     /\ Take(afterStars, 3 * k) = reps(k)
     /\ At(afterStars, 3 * k + 1) = "/"}

\* C5: when the `**` matched by the Globstar rule is followed by k >= 1
\* repetitions of `/**` and then a `/`, the repetitions are dropped from the
\* input, and the parse ends with the kinds and values of the nodes of the
\* pattern that has the single `**`.
C5_GlobstarFolding ==
  last.rule = "globstar" =>
    \A k \in folds :
      LET single == Take(orig, offset + 2) \o Drop(afterStars, 3 * k)
      IN  /\ Len(parser.input) <= Len(afterStars) - 3 * k
          /\ kinds(parse(parser).nodes)
               = kinds(parse(newParser(single, parser.options)).nodes)
          /\ parse(parser).status = parse(newParser(single, parser.options)).status

C5_Witness ==
  /\ last.rule = "globstar"
  /\ 2 \in folds
  /\ orig = <<"/">> \o <<"*", "*">> \o reps(2) \o <<"/">>
  /\ parser.input = <<"/">>
  /\ Len(parser.nodes) = 2

\* C6: a quote at the cursor that does not occur again in the input after it
\* is taken by the Quoted rule, which consumes that one character and adds
\* an escape node carrying it, without an error.
C6_UnterminatedQuote ==
  (/\ last.rule # "none"
   /\ quotedRe(before) > 0
   /\ \A i \in 2..Len(before) : before[i] # before[1])
  => /\ last.rule = "quoted"
     /\ parser.input = Tail(before)
     /\ parser.nodes
          = Append(last.this.nodes, [type |-> "escape", val |-> <<before[1]>>])
     /\ parser.status # "error"

C6_Witness ==
  /\ last.rule = "quoted"
  /\ before = <<SQ, DQ, "a", DQ>>
  /\ lastNode = [type |-> "escape", val |-> <<SQ>>]
  /\ parser.input = <<DQ, "a", DQ>>

\* the position in r, from i on, of the first q that no backslash escapes,
\* 0 when there is none
RECURSIVE closingQuote(_, _, _)
closingQuote(r, q, i) ==
  IF i > Len(r) THEN 0
  ELSE IF r[i] = BS THEN closingQuote(r, q, i + 2)
  ELSE IF r[i] = q THEN i
  ELSE closingQuote(r, q, i + 1)

\* s with the backslash of every backslash-escaped character removed
RECURSIVE unescaped(_)
unescaped(s) ==
  IF s = <<>> THEN <<>>
  ELSE IF s[1] = BS THEN Take(Drop(s, 1), 1) \o unescaped(Drop(s, 2))
  ELSE <<s[1]>> \o unescaped(Drop(s, 1))

\* C7 as claimed: when the opening quote occurs again later in the input,
\* the Quoted rule consumes the characters up to and including the closing
\* quote that no backslash escapes, never more than remain, and adds a
\* quoted node whose value is the text between the quotes with the
\* backslash of every escaped character removed and no character added.
C7_TerminatedQuote ==
  (/\ last.rule = "quoted"
   /\ \E i \in 2..Len(before) : before[i] = before[1])
  => LET q == before[1]
         r == Tail(before)
         j == closingQuote(r, q, 1)
     IN  /\ lastNode.type = "quoted"
         /\ advanceTo(r, q).len <= Len(r)
         /\ j > 0 => /\ parser.input = Drop(r, j)
                     /\ lastNode.val = unescaped(Take(r, j - 1))

\* the bracket class at the start of s: its marker, its body (the characters
\* up to the first closing bracket) and whether that closing bracket is there
classMarker(s) == IF At(s, 2) \in {"!", "^"} THEN <<s[2]>> ELSE <<>>
classBody(s) ==
  LET r == Drop(s, 1 + Len(classMarker(s))) IN Take(r, RunNotIn(r, {"]"}))
isClass(s) ==
  /\ At(s, 1) = "["
  /\ classBody(s) # <<>>
  /\ At(s, 2 + Len(classMarker(s)) + Len(classBody(s))) = "]"
  /\ squareRe(s) = 0

\* what the Bracket rule does with a class apart from its inner: one bracket
\* node, negated `^` exactly with a marker, close `]`, escaped false
classNode(inner) ==
  /\ last.rule = "bracket"
  /\ Len(parser.nodes) = Len(last.this.nodes) + 1
  /\ parser.input
       = Drop(before, 2 + Len(classMarker(before)) + Len(classBody(before)))
  /\ lastNode.type = "bracket"
  /\ lastNode.negated = (IF classMarker(before) # <<>> THEN <<"^">> ELSE <<>>)
  /\ lastNode.inner = inner
  /\ lastNode.close = <<"]">>
  /\ lastNode.escaped = FALSE

\* C8 as claimed: a closed class that is not a square gives one bracket node
\* with negated `^` iff the marker is there, inner the body, close `]` and
\* escaped false.
C8_Original ==
  (last.rule # "none" /\ isClass(before)) => classNode(classBody(before))

\* body with its first run of two or more backslashes cut to two
cutRun(body) ==
  LET runs == {i \in 1..Len(body) : body[i] = BS /\ At(body, i + 1) = BS}
  IN  IF runs = {} THEN body
      ELSE LET i == CHOOSE x \in runs : \A y \in runs : x <= y
               j == CHOOSE x \in i..Len(body) :
                      /\ \A y \in i..x : body[y] = BS
                      /\ At(body, x + 1) # BS
           IN  [x \in 1..(i + 1) |-> body[x]]
                 \o [x \in 1..(Len(body) - j) |-> body[j + x]]

\* C8 as amended: a closed class that is not a square gives one bracket node
\* with negated `^` iff the marker is there, close `]`, escaped false, and
\* inner the body with its first run of two or more backslashes cut to two.
C8_BracketClass ==
  (last.rule # "none" /\ isClass(before)) => classNode(cutRun(classBody(before)))

C8_Witness ==
  /\ last.rule = "bracket"
  /\ before = <<"[", "!", "a", BS, BS, BS, "]">>
  /\ lastNode.negated = <<"^">>
  /\ lastNode.inner = <<"a", BS, BS>>
  /\ parser.input = <<>>

\* the bracket nodes of the AST
bracketNodes ==
  {parser.nodes[i] : i \in {j \in 1..Len(parser.nodes) :
                              parser.nodes[j].type = "bracket"}}

\* an opening bracket at the start of s with no closing bracket after it
isUnterminated(s) == At(s, 1) = "[" /\ \A i \in 1..Len(s) : s[i] # "]"

\* C9 as claimed: a bracket node's close is `]` or empty and its escaped is
\* true exactly when close is not `]`; an unterminated class gives a bracket
\* node with escaped true and an empty close, without an error.
C9_Original ==
  /\ \A n \in bracketNodes :
       /\ n.close \in {<<"]">>, <<>>}
       /\ n.escaped = (n.close # <<"]">>)
  /\ (last.rule # "none" /\ isUnterminated(before))
     => /\ last.rule = "bracket"
        /\ lastNode.escaped = TRUE
        /\ lastNode.close = <<>>
        /\ parser.status # "error"

\* C9 as amended: a bracket node's escaped is true exactly when its close is
\* not `]`, and its close is `]`, empty, or a run of characters none of which
\* is `*`, `+` or `?`; an unterminated class gives a bracket node with
\* escaped true, without an error.
C9_BracketClose ==
  /\ \A n \in bracketNodes :
       /\ \/ n.close \in {<<"]">>, <<>>}
          \/ \A i \in 1..Len(n.close) : n.close[i] \notin {"*", "+", "?"}
       /\ n.escaped = (n.close # <<"]">>)
  /\ (last.rule # "none" /\ isUnterminated(before))
     => /\ last.rule = "bracket"
        /\ lastNode.type = "bracket"
        /\ lastNode.escaped = TRUE
        /\ lastNode.close # <<"]">>
        /\ parser.status # "error"

C9_Witness ==
  /\ last.rule = "bracket"
  /\ before = <<"[", "a", "a", "a">>
  /\ lastNode.inner = <<"a", "a">>
  /\ lastNode.close = <<"a">>
  /\ lastNode.escaped = TRUE

\* C10: a dot node's dotfiles is true exactly when its run is one `.` that
\* starts the pattern or follows a `/` in it, and after the Dot rule
\* state.dot is that node's dotfiles.
C10_Dotfile ==
  last.rule = "dot" =>
    /\ lastNode.type = "dot"
    /\ lastNode.val = Take(before, dotRe(before))
    /\ lastNode.dotfiles
         = (dotRe(before) = 1 /\ (offset = 0 \/ At(orig, offset) = "/"))
    /\ parser.state.dot = lastNode.dotfiles

C10_Witness ==
  /\ last.rule = "dot"
  /\ orig = <<"a", "/", ".">>
  /\ lastNode.dotfiles = TRUE
  /\ parser.state.dot = TRUE

\* what the Prefix rule does apart from the input: add_prefix set,
\* strict_open the strictOpen option, no node, nothing else of the state
\* or the wrap strings changed
prefixFlags ==
  /\ last.this.parsed = <<>>
  /\ offset = 0
  /\ parser.state = [last.this.state EXCEPT
                       !.addPrefix = TRUE,
                       !.strictOpen = parser.options.strictOpen]
  /\ parser.nodes = last.this.nodes
  /\ parser.nodes = <<>>
  /\ parser.bos = last.this.bos
  /\ parser.append = last.this.append

\* a pattern that begins with `./` or `.\` is first taken by the Prefix
\* rule, and the Prefix rule acts only while nothing has been parsed
prefixFirst ==
  /\ (last.rule # "none" /\ offset = 0 /\ prefixRe(orig) > 0)
       => last.rule = "prefix"
  /\ (parser.status = "parsing" /\ parser.parsed # <<>>)
       => ~applies("prefix", parser)

\* C11 as claimed: on a pattern that begins with `./` or `.\` the Prefix rule
\* sets add_prefix and strict_open, adds no node and leaves the remaining
\* input as it was; once anything has been parsed it does nothing.
C11_Original ==
  /\ prefixFirst
  /\ last.rule = "prefix" => (prefixFlags /\ parser.input = before)

\* C11 as amended: on a pattern that begins with `./` or `.\` the Prefix rule
\* sets add_prefix and strict_open, adds no node and consumes the two
\* matched characters, which move to the parsed text and reach no later
\* rule; once anything has been parsed it does nothing.
C11_PrefixConsumes ==
  /\ prefixFirst
  /\ last.rule = "prefix"
       => /\ prefixFlags
          /\ parser.input = Drop(orig, 2)
          /\ parser.parsed = Take(orig, 2)
          /\ parser.status # "error"

C11_Witness ==
  /\ last.rule = "prefix"
  /\ orig = <<".", "/", "a">>
  /\ parser.input = <<"a">>
  /\ parser.nodes = <<>>
  /\ parser.options.strictOpen = TRUE
  /\ parser.state.strictOpen = TRUE
  /\ parser.state.addPrefix = TRUE

\* the names of the rules
ruleNames == {Rules[i] : i \in 1..Len(Rules)}

\* the rules whose match condition holds on the remaining input
matching(this) == {r \in ruleNames : applies(r, this)}

\* C12 as claimed: at every cursor position at most one of the 14 rules
\* matches the remaining input.
C12_Original ==
  parser.status = "parsing" => Cardinality(matching(parser)) <= 1

\* the pairs of rules that can match the same input, the one that is tried
\* first named first
Overlaps ==
  {<<"prefix", "dot">>, <<"escape", "backslash">>,
   <<"globstar", "star">>, <<"square", "bracket">>}

\* C12 as amended: at every cursor position at most two rules match the
\* remaining input, and two only as prefix with dot, escape with backslash,
\* globstar with star or square with bracket; the rule that acts is then the
\* first of the pair, and the nodes are the ones that rule alone gives.
C12_FirstMatchWins ==
  /\ parser.status = "parsing"
       => LET m == matching(parser)
          IN  \/ Cardinality(m) <= 1
              \/ \E p \in Overlaps : m = {p[1], p[2]}
  /\ last.rule # "none"
       => \A p \in Overlaps :
            (applies(p[1], last.this) /\ applies(p[2], last.this))
              => /\ last.rule = p[1]
                 /\ parser.nodes = run(p[1], last.this).nodes
                 /\ parser.input = run(p[1], last.this).input

C12_Witness ==
  /\ last.rule = "escape"
  /\ before = <<BS, "a">>
  /\ matching(last.this) = {"escape", "backslash"}
  /\ lastNode = [type |-> "escape", val |-> <<"a">>]
  /\ parser.input = <<>>

\* the parser as a second parse of the same pattern starts from it: the
\* cursor and the AST are new, parser.state is what the earlier parse left
secondRun(this) == [newParser(orig, this.options) EXCEPT !.state = this.state]

\* C13: a second tokenization of the same pattern with the same options,
\* started from the state the first one left, ends as the first did, with
\* the same nodes (every field of each) and the same bos and append.
C13_Determinism ==
  parser.status \in {"done", "error"} =>
    LET again == parse(secondRun(parser))
    IN  /\ again.nodes = parser.nodes
        /\ again.bos = parser.bos
        /\ again.append = parser.append
        /\ again.status = parser.status
        /\ again.input = parser.input

C13_Witness ==
  /\ parser.status = "done"
  /\ orig = <<"/", ".", "*">>
  /\ parser.state.slashes = 1
  /\ parser.state.dot = TRUE
  /\ parser.state.star = TRUE
  /\ parse(secondRun(parser)).state.slashes = 2
  /\ parse(secondRun(parser)).nodes = parser.nodes

\* C14: every rule that acts, Prefix and Globstar included, leaves the
\* remaining input strictly shorter than it found it, and what it leaves is
\* the end of what it found.
C14_StrictAdvance ==
  last.rule # "none" =>
    /\ Len(parser.input) < Len(before)
    /\ parser.input = Drop(before, Len(before) - Len(parser.input))

C14_Witness ==
  /\ last.rule = "globstar"
  /\ before = <<"*", "*", "/", "*", "*", "/">>
  /\ parser.input = <<"/">>
  /\ Len(parser.nodes) = Len(last.this.nodes) + 1

\* C15: state.star, state.metachar and state.globstar are not set when the
\* parse starts, and a rule that finds one of them set leaves it set.
C15_MonotonicFlags ==
  /\ Len(parser.input) = Len(orig)
       => /\ parser.state.star = FALSE
          /\ parser.state.metachar = FALSE
          /\ parser.state.globstar = FALSE
  /\ last.this.state.star = TRUE => parser.state.star = TRUE
  /\ last.this.state.metachar = TRUE => parser.state.metachar = TRUE
  /\ last.this.state.globstar = TRUE => parser.state.globstar = TRUE

C15_Witness ==
  /\ last.rule = "globstar"
  /\ orig = <<"*", "/", "*", "*">>
  /\ last.this.state.star = TRUE
  /\ last.this.state.metachar = TRUE
  /\ last.this.state.globstar = FALSE
  /\ parser.state.star = TRUE
  /\ parser.state.metachar = TRUE
  /\ parser.state.globstar = TRUE

\* val is a run of characters at the start of s none of which is one of the
\* characters of NOT_REGEX, and the run ends where s ends or the next
\* character is one of them (or a line terminator)
plainRun(val, s) ==
  /\ val = Take(s, Len(val))
  /\ \A i \in 1..Len(val) : val[i] \notin NOT_REGEX
  /\ At(s, Len(val) + 1) \in NOT_REGEX \cup LineTerminators \cup {""}

\* C16 as claimed: the value of a text node is a non-empty maximal run of
\* characters none of which is one of [ ! * + ? $ ^ " ' . \ /
C16_Original ==
  last.rule = "text" =>
    /\ lastNode.type = "text"
    /\ lastNode.val # <<>>
    /\ plainRun(lastNode.val, before)

\* C16 as amended: the value of a text node is either the two characters
\* `*(` taken before a further character, or a non-empty maximal run of
\* characters none of which is one of [ ! * + ? $ ^ " ' . \ /
C16_TextValue ==
  last.rule = "text" =>
    /\ lastNode.type = "text"
    /\ lastNode.val # <<>>
    /\ parser.input = Drop(before, Len(lastNode.val))
    /\ IF Take(before, 2) = <<"*", "(">>
       THEN lastNode.val = <<"*", "(">> /\ Len(before) >= 3
       ELSE plainRun(lastNode.val, before)

C16_Witness ==
  /\ last.rule = "text"
  /\ before = <<"*", "(", "a">>
  /\ lastNode = [type |-> "text", val |-> <<"*", "(">>]
  /\ parser.input = <<"a">>

\* the characters a backslash must not stand before for the Backslash rule
\* to take it
afterBackslash == {"*", "+", "?", "(", ")", "{", "}", "[", "]", SQ, DQ}

\* C17 as claimed: the Backslash rule takes a backslash that does not stand
\* before one of * + ? ( ) { } [ ] ' "; inside a bracket context its node
\* has the value of one backslash; outside one, a run of more than one
\* backslash at the cursor gives a backslash node whose value is two
\* backslashes.
C17_BackslashRun ==
  /\ last.rule = "backslash"
       => /\ before[1] = BS
          /\ At(before, 2) \notin afterBackslash
          /\ lastNode.type = "backslash"
          /\ isInside(last.this, "bracket") => lastNode.val = <<BS>>
  /\ (/\ last.rule # "none"
      /\ ~isInside(last.this, "bracket")
      /\ RunIn(before, {BS}) > 1
      /\ At(before, RunIn(before, {BS}) + 1) \notin afterBackslash)
     => /\ last.rule = "backslash"
        /\ lastNode = [type |-> "backslash", val |-> <<BS, BS>>]

\* the position of the first closing bracket in s, 0 when there is none
firstClose(s) ==
  IF \A i \in 1..Len(s) : s[i] # "]" THEN 0 ELSE RunNotIn(s, {"]"}) + 1

\* C18 as claimed: at an opening bracket with an empty body followed by an
\* escaped closing bracket, the Bracket rule goes on taking characters into
\* inner up to a literal closing bracket (close `]`, escaped false) or to
\* the end of the input (close empty, escaped true), and gives a bracket
\* node without an error.
C18_EscapedClose ==
  (last.rule # "none" /\ Take(before, 3) = <<"[", BS, "]">>)
  => LET rest == Drop(before, 3)
         j    == firstClose(rest)
     IN  /\ last.rule = "bracket"
         /\ parser.status # "error"
         /\ lastNode.type = "bracket"
         /\ IF j > 0
            THEN /\ lastNode.inner = <<BS, "]">> \o Take(rest, j - 1)
                 /\ lastNode.close = <<"]">>
                 /\ lastNode.escaped = FALSE
                 /\ parser.input = Drop(rest, j)
            ELSE /\ lastNode.inner = <<BS, "]">> \o rest
                 /\ lastNode.close = <<>>
                 /\ lastNode.escaped = TRUE
                 /\ parser.input = <<>>

\* the number of nodes of the given type in a sequence of nodes
count(nodes, type) ==
  Cardinality({i \in 1..Len(nodes) : nodes[i].type = type})

\* the number of `/` in s
separators(s) == Cardinality({i \in 1..Len(s) : s[i] = "/"})

\* C19: state.slashes is the number of slash nodes in the AST; the Slash
\* rule adds one to it and no other rule changes it, whatever `/` that rule
\* takes from the input.
C19_SeparatorCount ==
  /\ parser.state.slashes = count(parser.nodes, "slash")
  /\ Len(parser.input) = Len(orig) => parser.state.slashes = 0
  /\ last.rule = "slash"
       => parser.state.slashes = last.this.state.slashes + 1
  /\ last.rule # "slash"
       => parser.state.slashes = last.this.state.slashes
  /\ parser.state.slashes <= separators(orig) - separators(parser.input)

C19_Witness ==
  /\ parser.status = "done"
  /\ orig = <<"/", "*", "*", "/", "*", "*", "/">>
  /\ separators(orig) = 3
  /\ parser.state.slashes = 2
  /\ count(parser.nodes, "slash") = 2

\* C20: in every state of a parse state.metachar is set exactly when the AST
\* has a qmark, star or globstar node, state.globstar exactly when it has a
\* globstar node, and state.star exactly when it has a star node.
C20_FlagsMatchNodes ==
  /\ parser.state.metachar
       = (\E i \in 1..Len(parser.nodes) :
            parser.nodes[i].type \in {"qmark", "star", "globstar"})
  /\ parser.state.globstar = (count(parser.nodes, "globstar") > 0)
  /\ parser.state.star = (count(parser.nodes, "star") > 0)

C20_Witness ==
  /\ last.rule = "globstar"
  /\ orig = <<"?", "*", "*">>
  /\ parser.options.noglobstar = TRUE
  /\ kinds(parser.nodes) = <<<<"qmark", <<"?">>>>, <<"star", <<"*">>>>>>
  /\ parser.state.metachar = TRUE
  /\ parser.state.star = TRUE
  /\ parser.state.globstar = FALSE

====
